---- MODULE Spec2Model ----
(***************************************************************************)
(* Model of the simulation core of st_seapower.py: the three NationAgent   *)
(* objects and SeaPowerModel.step(), driven by the host loop of the        *)
(* Streamlit script.                                                       *)
(*                                                                         *)
(* Numbers.  wealth and navy are Python floats; they are kept here in      *)
(* fixed point, as integers counting 1/Scale units.  industry and          *)
(* merchant_fleet only ever receive the result of a floor division, so     *)
(* they stay whole and are kept in whole units.  strategy weights are in   *)
(* tenths, land_security_burden in 1/BurdenDen (the slider step 0.05).     *)
(* A product by a decimal literal of the code is written as the integer    *)
(* product followed by \div (0.95 -> *95 \div 100).                        *)
(***************************************************************************)
EXTENDS Integers, Sequences, FiniteSets, TLC

\* ------------------------------------------------------------------ bounds
\* number of calls of model.step() the host loop is followed for
MaxSteps == 17
\* fixed-point resolution of wealth and navy
Scale == 1000

\* ---------------------------------------------------------- slider inputs
\* step=0.05 of both burden sliders: a burden b stands for b/BurdenDen
BurdenDen == 20
\* max_value=0.8 of the land power's slider, in 1/BurdenDen
GerBurdenMax == 16
\* max_value=0.5 of the sea power's slider, in 1/BurdenDen
UkBurdenMax == 10

\* unique_id of the three agents, in construction order
Ids == {1, 2, 3}
ConstructionOrder == <<1, 2, 3>>

VARIABLES
    nation,             \* unique_id -> the NationAgent's fields
    agents,             \* schedule.agents: the ids in the scheduler's order
    steps,              \* schedule.steps
    status_message,     \* model.status_message
    current_sea_state,  \* model.current_sea_state
    pc,                 \* position inside SeaPowerModel.step()
    sorted_agents,      \* local of determine_sea_control: the ranking
    activated,          \* ids whose step() has completed in this schedule.step()
    cur,                \* id of the agent inside its step(), 0 when none
    apc,                \* position inside NationAgent.step() of cur
    pre,                \* nation as it was when the current model.step() began
    ref                 \* the run of the same inputs in which schedule.agents
                        \* never leaves construction order

vars == <<nation, agents, steps, status_message, current_sea_state, pc,
          sorted_agents, activated, cur, apc, pre, ref>>

\* ------------------------------------------------------------ NationAgent

\* NationAgent.__init__
NewAgent(name, strategy, color, burden) ==
    [name |-> name, strategy |-> strategy, color |-> color,
     land_security_burden |-> burden,
     wealth |-> 500 * Scale, industry |-> 120, merchant_fleet |-> 50,
     navy |-> 20 * Scale,
     has_sea_control |-> FALSE, is_blockaded |-> FALSE]

\* ind_multiplier with the blockade test made before the colour test
ind_multiplierBlockadeFirst(a) ==
    IF a.is_blockaded THEN 2
    ELSE IF a.color = "#8B4513" THEN 40 ELSE 15

\* ind_multiplier of economic_cycle, in tenths
ind_multiplier(a) ==
    IF a.color = "#8B4513" THEN 40
    ELSE IF a.is_blockaded THEN 2 ELSE 15

\* trade_eff of economic_cycle, in hundredths
trade_eff(a) ==
    IF a.has_sea_control THEN 200
    ELSE IF a.is_blockaded THEN 5 ELSE 80

\* base_income of economic_cycle, in 1/Scale
base_income(a) == (a.industry * ind_multiplier(a) * Scale) \div 10

\* trade_income of economic_cycle, in 1/Scale
trade_income(a) == (a.merchant_fleet * 2 * trade_eff(a) * Scale) \div 100

economic_cycle(a) ==
    [a EXCEPT !.wealth = @ + base_income(a) + trade_income(a)]

\* invest with / in place of // for the navy
investNoFloor(a) ==
    IF a.wealth <= 10 * Scale THEN a
    ELSE LET budget == (a.wealth * 4) \div 10
             net_budget == (budget * (BurdenDen - a.land_security_burden))
                               \div BurdenDen
         IN [a EXCEPT
               !.wealth = @ - budget,
               !.industry = @ + (net_budget * a.strategy.industry)
                                    \div (10 * 40 * Scale),
               !.merchant_fleet = @ + (net_budget * a.strategy.merchant)
                                    \div (10 * 8 * Scale),
               !.navy = @ + (net_budget * a.strategy.navy) \div (10 * 15)]

invest(a) ==
    IF a.wealth <= 10 * Scale THEN a
    ELSE LET budget == (a.wealth * 4) \div 10
             net_budget == (budget * (BurdenDen - a.land_security_burden))
                               \div BurdenDen
         IN [a EXCEPT
               !.wealth = @ - budget,
               !.industry = @ + (net_budget * a.strategy.industry)
                                    \div (10 * 40 * Scale),
               !.merchant_fleet = @ + (net_budget * a.strategy.merchant)
                                    \div (10 * 8 * Scale),
               !.navy = @ + Scale * ((net_budget * a.strategy.navy)
                                    \div (10 * 15 * Scale))]

\* cost of pay_maintenance, in 1/Scale
cost(a) == (a.navy * 8) \div 10 + (a.merchant_fleet * 2 * Scale) \div 10

\* pay_maintenance without the floor at 0
pay_maintenanceNoFloor(a) ==
    [a EXCEPT !.wealth = @ - cost(a)]

pay_maintenance(a) ==
    LET w == a.wealth - cost(a)
    IN [a EXCEPT !.wealth = IF w < 0 THEN 0 ELSE w]

\* NationAgent.step as a function of the agent's own fields
NationStep(a) == pay_maintenance(invest(economic_cycle(a)))

\* ---------------------------------------------------------- SeaPowerModel

\* the guard with <= 0.1 in place of < 0.1
EscalatesAtOrBelow(n, ger) ==
    n = 15 /\ ger.land_security_burden * 10 <= BurdenDen

\* the guard of the scripted event of SeaPowerModel.step
Escalates(n, ger) ==
    n = 15 /\ ger.land_security_burden * 10 < BurdenDen

TotalWarStrategy == [navy |-> 8, merchant |-> 0, industry |-> 2]

\* the scripted event applied to the agents
Escalate(nat, n) ==
    IF Escalates(n, nat[2])
    THEN [nat EXCEPT ![2].strategy = TotalWarStrategy,
                     ![2].name = "Germany (Total War)"]
    ELSE nat

\* sorted(agents, key=navy, reverse=True): descending and stable, so agents
\* of equal navy keep the order they have in the list that is sorted
SortedAgents(nat, order) ==
    LET Before(i, j) == \/ nat[order[i]].navy > nat[order[j]].navy
                        \/ /\ nat[order[i]].navy = nat[order[j]].navy
                           /\ i < j
    IN [k \in 1..Len(order) |->
          order[CHOOSE i \in 1..Len(order) :
                  Cardinality({j \in 1..Len(order) : Before(j, i)}) = k - 1]]

Max(x, y) == IF x >= y THEN x ELSE y

\* the ratio taken against sorted_agents[2] in place of sorted_agents[1]
DominatedOverThird(nat, ranking) ==
    nat[ranking[1]].navy * 10 > 12 * Max(1 * Scale, nat[ranking[3]].navy)

\* ratio > 1.2 with ratio = strongest.navy / max(1, runner_up.navy)
Dominated(nat, ranking) ==
    nat[ranking[1]].navy * 10 > 12 * Max(1 * Scale, nat[ranking[2]].navy)

\* the label determine_sea_control gives a domination by this colour
DominationLabel(color, old) ==
    IF color = "blue" THEN "blue_domination"
    ELSE IF color = "#8B4513" THEN "red_domination"
    ELSE IF color = "orange" THEN "orange_domination"
    ELSE old

\* determine_sea_control without the test a != strongest of the blockade loop
DetermineAgentsBlockadeAll(nat, ranking) ==
    LET strongest == ranking[1]
        runner_up == ranking[2]
    IN IF Dominated(nat, ranking)
       THEN [a \in Ids |->
               [nat[a] EXCEPT !.has_sea_control = (a = strongest),
                              !.is_blockaded = TRUE]]
       ELSE [a \in Ids |->
               [nat[a] EXCEPT !.has_sea_control = FALSE,
                              !.is_blockaded = FALSE,
                              !.navy = IF a \in {strongest, runner_up}
                                       THEN (@ * 95) \div 100 ELSE @]]

\* determine_sea_control with the decay applied to every agent
DetermineAgentsDecayAll(nat, ranking) ==
    LET strongest == ranking[1]
    IN IF Dominated(nat, ranking)
       THEN [a \in Ids |->
               [nat[a] EXCEPT !.has_sea_control = (a = strongest),
                              !.is_blockaded = (a # strongest)]]
       ELSE [a \in Ids |->
               [nat[a] EXCEPT !.has_sea_control = FALSE,
                              !.is_blockaded = FALSE,
                              !.navy = (@ * 95) \div 100]]

\* determine_sea_control with the decay applied in both branches
DetermineAgentsDecayAlways(nat, ranking) ==
    LET strongest == ranking[1]
        runner_up == ranking[2]
    IN [a \in Ids |->
          [nat[a] EXCEPT
             !.has_sea_control = Dominated(nat, ranking) /\ a = strongest,
             !.is_blockaded = Dominated(nat, ranking) /\ a # strongest,
             !.navy = IF a \in {strongest, runner_up}
                      THEN (@ * 95) \div 100 ELSE @]]

\* the agents after determine_sea_control, for the ranking it computed
DetermineAgents(nat, ranking) ==
    LET strongest == ranking[1]
        runner_up == ranking[2]
    IN IF Dominated(nat, ranking)
       THEN [a \in Ids |->
               [nat[a] EXCEPT !.has_sea_control = (a = strongest),
                              !.is_blockaded = (a # strongest)]]
       ELSE [a \in Ids |->
               [nat[a] EXCEPT !.has_sea_control = FALSE,
                              !.is_blockaded = FALSE,
                              !.navy = IF a \in {strongest, runner_up}
                                       THEN (@ * 95) \div 100 ELSE @]]

\* one whole SeaPowerModel.step() when schedule.agents is in construction
\* order: every agent's step depends on its own fields only
ModelStepFn(nat, n) ==
    LET esc == Escalate(nat, n)
        det == DetermineAgents(esc, SortedAgents(esc, ConstructionOrder))
    IN [a \in Ids |-> NationStep(det[a])]

\* ------------------------------------------------------------------- Init

\* SeaPowerModel.__init__ with the two slider values
Construct(land_burden_ger, land_burden_uk) ==
    [a \in Ids |->
       IF a = 1 THEN NewAgent("UK (Sea)",
                        [navy |-> 6, merchant |-> 3, industry |-> 1],
                        "blue", land_burden_uk)
       ELSE IF a = 2 THEN NewAgent("Germany (Land)",
                        [navy |-> 3, merchant |-> 2, industry |-> 5],
                        "#8B4513", land_burden_ger)
       ELSE NewAgent("Netherlands",
                        [navy |-> 1, merchant |-> 8, industry |-> 1],
                        "orange", (1 * BurdenDen) \div 10)]

Init ==
    /\ \E g \in 0..GerBurdenMax, u \in 0..UkBurdenMax :
          nation = Construct(g, u)
    /\ agents = ConstructionOrder
    /\ steps = 0
    /\ status_message = ""
    /\ current_sea_state = "Contested"
    /\ pc = "idle"
    /\ sorted_agents = ConstructionOrder
    /\ activated = <<>>
    /\ cur = 0
    /\ apc = "none"
    /\ pre = nation
    /\ ref = nation

\* ---------------------------------------------------------------- actions

\* the host loop calls model.step(): the scripted event check
StepBegin ==
    /\ pc = "idle"
    /\ steps < MaxSteps
    /\ nation' = Escalate(nation, steps)
    /\ status_message' = IF Escalates(steps, nation[2])
                         THEN "Tirpitz Plan" ELSE status_message
    /\ pre' = nation
    /\ pc' = "determine"
    /\ UNCHANGED <<agents, steps, current_sea_state, sorted_agents,
                   activated, cur, apc, ref>>

\* self.determine_sea_control()
DetermineSeaControl ==
    /\ pc = "determine"
    /\ LET ranking == SortedAgents(nation, agents)
       IN /\ sorted_agents' = ranking
          /\ nation' = DetermineAgents(nation, ranking)
          /\ current_sea_state' =
                IF Dominated(nation, ranking)
                THEN DominationLabel(nation[ranking[1]].color,
                                     current_sea_state)
                ELSE "Contested"
    /\ pc' = "schedule"
    /\ UNCHANGED <<agents, steps, status_message, activated, cur, apc,
                   pre, ref>>

\* self.schedule.step() activates an agent not yet activated in this step:
\* the agent's step() runs economic_cycle ...
AgentEconomicCycle(a) ==
    /\ pc = "schedule"
    /\ cur = 0
    /\ \A i \in 1..Len(activated) : activated[i] # a
    /\ nation' = [nation EXCEPT ![a] = economic_cycle(@)]
    /\ cur' = a
    /\ apc' = "invest"
    /\ UNCHANGED <<agents, steps, status_message, current_sea_state, pc,
                   sorted_agents, activated, pre, ref>>

\* ... then invest ...
AgentInvest ==
    /\ pc = "schedule"
    /\ cur # 0
    /\ apc = "invest"
    /\ nation' = [nation EXCEPT ![cur] = invest(@)]
    /\ apc' = "pay_maintenance"
    /\ UNCHANGED <<agents, steps, status_message, current_sea_state, pc,
                   sorted_agents, activated, cur, pre, ref>>

\* ... then pay_maintenance, and returns to the scheduler
AgentPayMaintenance ==
    /\ pc = "schedule"
    /\ cur # 0
    /\ apc = "pay_maintenance"
    /\ nation' = [nation EXCEPT ![cur] = pay_maintenance(@)]
    /\ activated' = Append(activated, cur)
    /\ cur' = 0
    /\ apc' = "none"
    /\ UNCHANGED <<agents, steps, status_message, current_sea_state, pc,
                   sorted_agents, pre, ref>>

\* the order of schedule.agents once RandomActivation.step() has activated
\* the agents in the order act.  The scheduler is mesa's, not this
\* repository's: a release that shuffles a copy of the keys leaves the list
\* as it was, a release that shuffles its agent collection in place leaves
\* it in the activation order.
ScheduleOrders(order, act) == {order, act}

\* schedule.step() ends (steps += 1), datacollector.collect() reads only,
\* and model.step() returns to the host loop
StepEnd ==
    /\ pc = "schedule"
    /\ cur = 0
    /\ Len(activated) = Cardinality(Ids)
    /\ agents' \in ScheduleOrders(agents, activated)
    /\ steps' = steps + 1
    /\ ref' = ModelStepFn(ref, steps)
    /\ activated' = <<>>
    /\ pc' = "idle"
    /\ UNCHANGED <<nation, status_message, current_sea_state,
                   sorted_agents, cur, apc, pre>>

Next ==
    \/ StepBegin
    \/ DetermineSeaControl
    \/ \E a \in Ids : AgentEconomicCycle(a)
    \/ AgentInvest
    \/ AgentPayMaintenance
    \/ StepEnd

Spec == Init /\ [][Next]_vars

\* -------------------------------------------------- invest on its own
\* invest reads and writes the agent's own fields only; SpecInvest applies it
\* to agents whose wealth, burden and strategy are drawn from the sets below,
\* the other fields being those of a new agent

\* wealth values around the subsistence floor of 10 and above it, in 1/Scale
InvestWealths ==
    {0, 10 * Scale - 1, 10 * Scale, 10 * Scale + 1, 11 * Scale,
     37 * Scale + 7, 500 * Scale, 760 * Scale + 499, 2413 * Scale + 58}

\* the strategies the code gives an agent
Strategies ==
    {[navy |-> 6, merchant |-> 3, industry |-> 1],
     [navy |-> 3, merchant |-> 2, industry |-> 5],
     [navy |-> 1, merchant |-> 8, industry |-> 1],
     TotalWarStrategy}

InitInvest ==
    /\ \E a \in Ids, w \in InvestWealths, b \in 0..BurdenDen, s \in Strategies :
          /\ nation = [Construct(0, 0) EXCEPT ![a].wealth = w,
                                              ![a].land_security_burden = b,
                                              ![a].strategy = s]
          /\ cur = a
    /\ agents = ConstructionOrder
    /\ steps = 0
    /\ status_message = ""
    /\ current_sea_state = "Contested"
    /\ pc = "schedule"
    /\ sorted_agents = ConstructionOrder
    /\ activated = <<>>
    /\ apc = "invest"
    /\ pre = nation
    /\ ref = nation

NextInvest == AgentInvest

SpecInvest == InitInvest /\ [][NextInvest]_vars

\* ----------------------------------------------------------------- claims

\* the two top-ranked agents of the last determination
TopTwo == {sorted_agents[1], sorted_agents[2]}

\* the last determination was contested: ratio <= 1.2 on the navies it read
\* (pre holds them: the scripted event does not touch a navy)
FoundContested ==
    pre[sorted_agents[1]].navy * 10
        <= 12 * Max(1 * Scale, pre[sorted_agents[2]].navy)

\* the state right after determine_sea_control, before any agent is activated
AfterDetermination == pc = "schedule" /\ activated = <<>> /\ cur = 0

\* a call of model.step() has returned
AfterStep == pc = "idle" /\ steps > 0

\* C1: after every call of SeaPowerModel.step() at most one agent has
\* has_sea_control; if one does, it is not blockaded and every other agent is
C1_SeaControlExclusive ==
    AfterStep =>
        /\ Cardinality({a \in Ids : nation[a].has_sea_control}) <= 1
        /\ \A a \in Ids :
              nation[a].has_sea_control =>
                 /\ ~nation[a].is_blockaded
                 /\ \A b \in Ids \ {a} : nation[b].is_blockaded
        /\ \A a \in Ids :
              ~(nation[a].has_sea_control /\ nation[a].is_blockaded)

\* C1 witness: a call has returned with an agent in sea control
C1_Witness ==
    AfterStep /\ \E a \in Ids : nation[a].has_sea_control

\* C2: the scripted escalation happens in a call of step() exactly when the
\* step counter is 15 and the land power's burden is below 0.1 as the call
\* begins; every other transition leaves the land power's strategy and name
\* and the status message unchanged
C2_EscalationIffStep15 ==
    [][LET fires == /\ pc = "idle" /\ pc' = "determine"
                    /\ steps = 15
                    /\ nation[2].land_security_burden * 10 < BurdenDen
       IN /\ fires => /\ nation'[2].strategy = TotalWarStrategy
                      /\ nation'[2].name = "Germany (Total War)"
                      /\ nation'[2].name # nation[2].name
                      /\ status_message' # status_message
                      /\ status_message' # ""
          /\ ~fires => /\ nation'[2].strategy = nation[2].strategy
                       /\ nation'[2].name = nation[2].name
                       /\ status_message' = status_message]_vars

\* C2 witness: the escalation has happened and a later call has returned
C2_Witness ==
    /\ status_message # ""
    /\ nation[2].strategy = TotalWarStrategy
    /\ pc = "idle" /\ steps > 16

\* C2 witness of the other side: a call at another step counter with the
\* land power's burden below 0.1 is under way
C2_WitnessNoFire ==
    /\ pc = "determine" /\ steps = 16
    /\ nation[2].land_security_burden * 10 < BurdenDen

C3_WitnessContested ==
    /\ AfterDetermination
    /\ \A a \in Ids : ~nation[a].has_sea_control
    /\ pre[sorted_agents[1]].navy > pre[sorted_agents[2]].navy

\* the navy of agent a after the decay of a contested determination
DecayedNavy(a) ==
    IF a \in TopTwo THEN (pre[a].navy * 95) \div 100 ELSE pre[a].navy

\* C4: a determination that finds ratio <= 1.2 leaves no flag set, the two
\* highest navies at 0.95 times their value before the step and the third
\* unchanged, and the agents then invest on top of the decayed navy
C4_ContestedDecay ==
    (pc = "schedule" /\ FoundContested) =>
        /\ current_sea_state = "Contested"
        /\ \A a \in Ids : /\ ~nation[a].has_sea_control
                          /\ ~nation[a].is_blockaded
        /\ \A a \in TopTwo, b \in Ids \ TopTwo : pre[a].navy >= pre[b].navy
        /\ Cardinality(TopTwo) = 2
        /\ AfterDetermination =>
              \A a \in Ids : nation[a].navy = DecayedNavy(a)
        /\ \A a \in Ids :
              /\ nation[a].navy >= DecayedNavy(a)
              /\ (nation[a].navy - DecayedNavy(a)) % Scale = 0

\* C4 witness: a contested determination after which a decayed navy has
\* received an investment
C4_Witness ==
    /\ pc = "schedule" /\ FoundContested
    /\ \E i \in 1..Len(activated) :
          /\ activated[i] \in TopTwo
          /\ nation[activated[i]].navy > DecayedNavy(activated[i])

\* C5: every agent's wealth is >= 0, in particular after maintenance
C5_WealthNonNegative ==
    \A a \in Ids : nation[a].wealth >= 0

\* C5 witness: an agent whose maintenance cost exceeded the wealth left after
\* investment has completed its step
C5_Witness ==
    /\ pc = "schedule"
    /\ \E i \in 1..Len(activated) : nation[activated[i]].wealth = 0

\* C7: across a call of step() no industry or merchant_fleet is lower than
\* before the call, and a navy is lower only when the call's determination
\* was contested and the agent was one of the two top-ranked
C7_MonotoneExceptDecay ==
    \A a \in Ids :
        /\ nation[a].industry >= pre[a].industry
        /\ nation[a].merchant_fleet >= pre[a].merchant_fleet
        /\ nation[a].navy < pre[a].navy => (FoundContested /\ a \in TopTwo)

\* C7 witness: a call has returned with a navy lower than before it
C7_Witness ==
    AfterStep /\ \E a \in Ids : nation[a].navy < pre[a].navy

\* C7 witness of the other side: a call with a dominated determination has
\* returned
C7_WitnessDominated ==
    /\ AfterStep /\ ~FoundContested
    /\ \E a \in Ids : nation[a].navy > pre[a].navy

\* x is the floor of num / den
IsFloor(x, num, den) == x * den <= num /\ num < (x + 1) * den

\* the transition is the economic_cycle of agent a
IsEconomicCycle(a) == pc = "schedule" /\ cur = 0 /\ cur' = a

\* C8: the economic cycle adds to the land power's wealth a base income of
\* 4.0 * industry whether or not it is blockaded, and to the other agents'
\* 0.2 * industry when blockaded and 1.5 * industry otherwise
C8_LandPowerMultiplier ==
    [][\A a \in Ids :
         IsEconomicCycle(a) =>
            LET base == nation'[a].wealth - nation[a].wealth
                            - trade_income(nation[a])
            IN IF a = 2
               THEN base = 4 * nation[a].industry * Scale
               ELSE IF nation[a].is_blockaded
                    THEN IsFloor(base, 2 * nation[a].industry * Scale, 10)
                    ELSE IsFloor(base, 15 * nation[a].industry * Scale, 10)]_vars

\* C8 witness: the land power has run its economic cycle while blockaded
C8_Witness ==
    cur = 2 /\ apc = "invest" /\ nation[2].is_blockaded

\* the transition is the invest of the activated agent
IsInvest == cur # 0 /\ apc = "invest" /\ apc' = "pay_maintenance"

\* C9: invest with wealth > 10 takes budget = 0.4 * wealth out of wealth and
\* adds floor(net_budget * share / cost) to industry, merchant_fleet and navy,
\* whole units only; with wealth <= 10 it changes none of the four
C9_InvestFloors ==
    [][IsInvest =>
         LET a == nation[cur]
             b == nation'[cur]
             budget == a.wealth - b.wealth
             net_budget == (budget * (BurdenDen - a.land_security_burden))
                               \div BurdenDen
         IN IF a.wealth > 10 * Scale
            THEN /\ IsFloor(budget, 4 * a.wealth, 10)
                 /\ IsFloor(b.industry - a.industry,
                            net_budget * a.strategy.industry, 10 * 40 * Scale)
                 /\ IsFloor(b.merchant_fleet - a.merchant_fleet,
                            net_budget * a.strategy.merchant, 10 * 8 * Scale)
                 /\ (b.navy - a.navy) % Scale = 0
                 /\ IsFloor((b.navy - a.navy) \div Scale,
                            net_budget * a.strategy.navy, 10 * 15 * Scale)
            ELSE /\ b.wealth = a.wealth /\ b.industry = a.industry
                 /\ b.merchant_fleet = a.merchant_fleet
                 /\ b.navy = a.navy]_vars

\* C9 witness: an invest with wealth > 10 has added whole units to all three
\* stocks of an agent
C9_Witness ==
    /\ cur # 0 /\ apc = "pay_maintenance"
    /\ nation[cur].wealth < pre[cur].wealth
    /\ nation[cur].industry > pre[cur].industry
    /\ nation[cur].merchant_fleet > pre[cur].merchant_fleet
    /\ nation[cur].navy >= pre[cur].navy + Scale

\* C9 witness of the other side: an invest with wealth <= 10 has returned
C9_WitnessSubsistence ==
    /\ cur # 0 /\ apc = "pay_maintenance"
    /\ pre[cur].wealth <= 10 * Scale
    /\ nation[cur] = pre[cur]

\* C6: two runs with the same burdens and the same number of calls of step()
\* end in the same state: every run agrees with the run in which the
\* scheduler's list stays in construction order
C6_RunsDeterministic ==
    pc = "idle" => nation = ref

\* C10: agents of equal navy are ranked by determine_sea_control in
\* construction order, and the first determination is contested and decays
\* the sea power's and the land power's navy to 19, the trade power's not
C10_TiesInConstructionOrder ==
    AfterDetermination =>
        /\ \A i, j \in 1..3 :
              (i < j /\ pre[sorted_agents[i]].navy = pre[sorted_agents[j]].navy)
                  => sorted_agents[i] < sorted_agents[j]
        /\ steps = 0 => /\ current_sea_state = "Contested"
                        /\ nation[1].navy = 19 * Scale
                        /\ nation[2].navy = 19 * Scale
                        /\ nation[3].navy = 20 * Scale

\* ------------------------------------------------------------------ types
TypeOK ==
    /\ steps \in 0..MaxSteps
    /\ pc \in {"idle", "determine", "schedule"}
    /\ cur \in Ids \cup {0}
    /\ \A a \in Ids : nation[a].wealth \in Nat /\ nation[a].navy \in Nat

====
